---- MODULE Spec2Model ----
(***************************************************************************)
(* Model of manus.py: the configuration loader (load_config), the ignore   *)
(* policy (is_ignored) and the context gatherer (gather_context).          *)
(*                                                                         *)
(* Strings that the program inspects character by character (patterns,     *)
(* path names, lines of .manusignore) are tuples of one-character strings. *)
(* A pathlib.Path is the tuple of its parts.                               *)
(***************************************************************************)
EXTENDS Integers, Sequences, FiniteSets, TLC

VARIABLES
    DEFAULT_CONFIG,   \* the module-level dict of manus.py:16-31
    config_file,      \* per project root: state of <root>/manus.json
    ignore_file,      \* per project root: state of <root>/.manusignore
    tree,             \* entries below a project root, in rglob('*') order
    calls,            \* number of load_config calls made by this process
    loaded,           \* outcome of the latest load_config call
    gathered,         \* outcome of the latest gather_context call
    previous,         \* outcome of the gather_context call before that
    checked           \* outcome of the latest direct is_ignored call

vars == <<DEFAULT_CONFIG, config_file, ignore_file, tree, calls, loaded,
          gathered, previous, checked>>

-----------------------------------------------------------------------------
(* Bounds *)

MaxCalls == 3

-----------------------------------------------------------------------------
(* Generic helpers on tuples *)

Range(s) == {s[i] : i \in 1..Len(s)}

IsPrefix(p, s) == Len(p) <= Len(s) /\ SubSeq(s, 1, Len(p)) = p

EndsWith(s, c) == Len(s) > 0 /\ s[Len(s)] = c

\* characters in ASCII order, for the ranges of a [...] class
Alphabet == <<"\t", "\n", " ", "!", "#", "*", "-", ".", "/", "0", "1", "2", "3", "4", "5", "6", "7", "8", "9", "?", "A", "B", "C", "D", "E", "F", "G", "H", "I", "J", "K", "L", "M", "N", "O", "P", "Q", "R", "S", "T", "U", "V", "W", "X", "Y", "Z", "[", "]", "_", "a", "b", "c", "d", "e", "f", "g", "h", "i", "j", "k", "l", "m", "n", "o", "p", "q", "r", "s", "t", "u", "v", "w", "x", "y", "z">>

Ord(c) == CHOOSE i \in 1..Len(Alphabet) : Alphabet[i] = c

-----------------------------------------------------------------------------
(* fnmatch.fnmatch(name, pat) on a POSIX host (normcase is the identity):   *)
(* '*' any run of characters, '?' one character, '[seq]' / '[!seq]' a       *)
(* class, an unclosed '[' a literal; the match is anchored at both ends.    *)

RECURSIVE FirstClose(_, _)
FirstClose(pat, k) ==
    IF k > Len(pat) THEN 0
    ELSE IF pat[k] = "]" THEN k
    ELSE FirstClose(pat, k + 1)

\* index of the ']' that closes the class opened at pat[j], 0 when unclosed
ClassEnd(pat, j) ==
    LET a == IF j + 1 <= Len(pat) /\ pat[j + 1] = "!" THEN j + 2 ELSE j + 1
        b == IF a <= Len(pat) /\ pat[a] = "]" THEN a + 1 ELSE a
    IN  FirstClose(pat, b)

RECURSIVE InStuff(_, _, _)
InStuff(c, stuff, k) ==
    IF k > Len(stuff) THEN FALSE
    ELSE IF k + 2 <= Len(stuff) /\ stuff[k + 1] = "-"
         THEN \/ Ord(stuff[k]) <= Ord(c) /\ Ord(c) <= Ord(stuff[k + 2])
              \/ InStuff(c, stuff, k + 3)
    ELSE c = stuff[k] \/ InStuff(c, stuff, k + 1)

ClassMatches(c, pat, j, e) ==
    LET neg   == pat[j + 1] = "!"
        stuff == SubSeq(pat, IF neg THEN j + 2 ELSE j + 1, e - 1)
    IN  IF neg THEN ~InStuff(c, stuff, 1) ELSE InStuff(c, stuff, 1)

RECURSIVE MatchFrom(_, _, _, _)
MatchFrom(name, i, pat, j) ==
    IF j > Len(pat) THEN i > Len(name)
    ELSE IF pat[j] = "*"
         THEN \/ MatchFrom(name, i, pat, j + 1)
              \/ i <= Len(name) /\ MatchFrom(name, i + 1, pat, j)
    ELSE IF pat[j] = "?"
         THEN i <= Len(name) /\ MatchFrom(name, i + 1, pat, j + 1)
    ELSE IF pat[j] = "[" /\ ClassEnd(pat, j) # 0
         THEN /\ i <= Len(name)
              /\ ClassMatches(name[i], pat, j, ClassEnd(pat, j))
              /\ MatchFrom(name, i + 1, pat, ClassEnd(pat, j) + 1)
    ELSE i <= Len(name) /\ name[i] = pat[j] /\ MatchFrom(name, i + 1, pat, j + 1)

fnmatch(name, pat) == MatchFrom(name, 1, pat, 1)

-----------------------------------------------------------------------------
(* pathlib *)

\* PurePath.as_posix() of a relative path: the parts joined by '/',
\* and '.' for the empty relative path
RECURSIVE JoinParts(_)
JoinParts(parts) ==
    IF Len(parts) = 0 THEN <<>>
    ELSE IF Len(parts) = 1 THEN parts[1]
    ELSE parts[1] \o <<"/">> \o JoinParts(Tail(parts))

as_posix(parts) == IF Len(parts) = 0 THEN <<".">> ELSE JoinParts(parts)

\* variant: no ValueError, the path is taken as it is when it is not below other
relative_to_unchecked(path, other) ==
    [raised |-> FALSE,
     parts  |-> IF IsPrefix(other, path)
                THEN SubSeq(path, Len(other) + 1, Len(path)) ELSE path]

\* PurePath.relative_to(other): lexical; raises ValueError unless the parts
\* of other are a prefix of the parts of path
relative_to(path, other) ==
    IF IsPrefix(other, path)
    THEN [raised |-> FALSE, parts |-> SubSeq(path, Len(other) + 1, Len(path))]
    ELSE [raised |-> TRUE, parts |-> <<>>]

\* str.rstrip('/')
RECURSIVE rstrip_slash(_)
rstrip_slash(s) ==
    IF EndsWith(s, "/") THEN rstrip_slash(SubSeq(s, 1, Len(s) - 1)) ELSE s

RECURSIVE LastDot(_, _)
LastDot(name, k) ==
    IF k = 0 THEN 0 ELSE IF name[k] = "." THEN k ELSE LastDot(name, k - 1)

\* PurePath.suffix: the last component from its last dot on, empty when the
\* dot is the first or the last character of the name
suffix(path) ==
    IF Len(path) = 0 THEN <<>>
    ELSE LET name == path[Len(path)]
             d    == LastDot(name, Len(name))
         IN  IF 1 < d /\ d < Len(name) THEN SubSeq(name, d, Len(name)) ELSE <<>>

-----------------------------------------------------------------------------
(* is_ignored(path, ignore_patterns, project_root), manus.py:82-90.         *)
(* is_dir is the answer of path.is_dir().                                   *)

\* variant: without the second fnmatch, on pattern + '/*'
RECURSIVE any_pattern_exact(_, _, _, _)
any_pattern_exact(relative_path, is_dir, ignore_patterns, k) ==
    IF k > Len(ignore_patterns) THEN FALSE
    ELSE LET pattern == IF EndsWith(ignore_patterns[k], "/") /\ is_dir
                        THEN rstrip_slash(ignore_patterns[k])
                        ELSE ignore_patterns[k]
         IN  \/ fnmatch(relative_path, pattern)
             \/ any_pattern_exact(relative_path, is_dir, ignore_patterns, k + 1)

RECURSIVE any_pattern_matches(_, _, _, _)
any_pattern_matches(relative_path, is_dir, ignore_patterns, k) ==
    IF k > Len(ignore_patterns) THEN FALSE
    ELSE LET pattern == IF EndsWith(ignore_patterns[k], "/") /\ is_dir
                        THEN rstrip_slash(ignore_patterns[k])
                        ELSE ignore_patterns[k]
         IN  \/ fnmatch(relative_path, pattern)
             \/ fnmatch(relative_path, pattern \o <<"/", "*">>)
             \/ any_pattern_matches(relative_path, is_dir, ignore_patterns, k + 1)

is_ignored(path, is_dir, ignore_patterns, project_root) ==
    LET rel == relative_to(path, project_root)
    IN  IF rel.raised
        THEN [raised |-> TRUE, value |-> FALSE]
        ELSE [raised |-> FALSE,
              value  |-> any_pattern_matches(as_posix(rel.parts), is_dir,
                                             ignore_patterns, 1)]

-----------------------------------------------------------------------------
(* DEFAULT_CONFIG, manus.py:16-31.  A Python value is a record [t, v]: its  *)
(* type and its content; a dict is a function from keys to such values.    *)

Str(s)  == [t |-> "str",  v |-> s]
List(l) == [t |-> "list", v |-> l]

DEFAULT_MODEL == "gpt-4.1-mini"

DEFAULT_SYSTEM_PROMPT == "You are a world-class full-stack developer assistant named Manus. Your goal is to help the user with their coding tasks. You are working on a project described by the following file contents. Analyze the context and provide concise, actionable code or advice. If you are asked to write code, only output the code block and nothing else."

DEFAULT_IGNORE_FILES ==
    << <<".", "g", "i", "t", "/">>,
       <<"n", "o", "d", "e", "_", "m", "o", "d", "u", "l", "e", "s", "/">>,
       <<"v", "e", "n", "v", "/">>,
       <<"_", "_", "p", "y", "c", "a", "c", "h", "e", "_", "_", "/">>,
       <<"*", ".", "l", "o", "g">>,
       <<"*", ".", "s", "q", "l", "i", "t", "e", "3">>,
       <<"*", ".", "e", "n", "v">>,
       <<".", "m", "a", "n", "u", "s", "i", "g", "n", "o", "r", "e">>,
       <<"m", "a", "n", "u", "s", ".", "j", "s", "o", "n">>,
       <<"m", "a", "n", "u", "s", ".", "p", "y">> >>

InitialDefaultConfig ==
    [model         |-> Str(DEFAULT_MODEL),
     system_prompt |-> Str(DEFAULT_SYSTEM_PROMPT),
     ignore_files  |-> List(DEFAULT_IGNORE_FILES)]

-----------------------------------------------------------------------------
(* The files load_config reads *)

RootA == << <<"p", "r", "o", "j">>, <<"a">> >>
RootB == << <<"p", "r", "o", "j">>, <<"b">> >>
Roots == {RootA, RootB}

\* <root>/manus.json: json is what json.load makes of the file,
\* [t |-> "invalid"] when it raises JSONDecodeError
ConfigFile(exists, readable, json) ==
    [exists |-> exists, readable |-> readable, json |-> json]

Dict(d) == [t |-> "dict", v |-> d]

ConfigFileStates ==
    << ConfigFile(FALSE, FALSE, [t |-> "invalid", v |-> <<>>]),
       ConfigFile(TRUE,  FALSE, [t |-> "invalid", v |-> <<>>]),
       ConfigFile(TRUE,  TRUE,  [t |-> "invalid", v |-> <<>>]),
       ConfigFile(TRUE,  TRUE,  Dict([model |-> Str("gpt-4o")])),
       ConfigFile(TRUE,  TRUE,  Dict([ignore_files |-> List(<< <<"*", ".", "s", "e", "c", "r", "e", "t">> >>)])),
       ConfigFile(TRUE,  TRUE,  Dict([system_prompt |-> Str("Be brief."),
                                      ignore_files  |-> List(<< <<"b", "u", "i", "l", "d", "/">>, <<"*", ".", "l", "o", "g">>, <<"*", ".", "p", "y">> >>)])),
       ConfigFile(TRUE,  TRUE,  Dict([ignore_files |-> Str(<<"*", ".", "s", "e", "c", "r", "e", "t">>)])),
       ConfigFile(TRUE,  TRUE,  [t |-> "int",  v |-> 42]),
       ConfigFile(TRUE,  TRUE,  List(<<>>)) >>

\* <root>/.manusignore: lines as iterating the open file yields them
IgnoreFile(exists, readable, lines) ==
    [exists |-> exists, readable |-> readable, lines |-> lines]

IgnoreFileStates ==
    << IgnoreFile(FALSE, FALSE, <<>>),
       IgnoreFile(TRUE,  FALSE, <<>>),
       IgnoreFile(TRUE,  TRUE,  << <<"#", " ", "p", "a", "t", "t", "e", "r", "n", "s", "\n">>, <<"\n">>, <<" ", " ", "*", ".", "t", "m", "p", " ", "\n">>,
                                   <<"\t", "#", " ", "i", "n", "d", "e", "n", "t", "e", "d", " ", "c", "o", "m", "m", "e", "n", "t", "\n">>, <<"t", "e", "m", "p", "/", "\n">>,
                                   <<"*", ".", "l", "o", "g", "\n">>, <<"*", ".", "t", "m", "p", "\n">>, <<"a", ".", "p", "y">> >>) >>

-----------------------------------------------------------------------------
(* load_config(project_root), manus.py:33-70 *)

Whitespace == {" ", "\t", "\n"}

RECURSIVE lstrip(_)
lstrip(s) == IF Len(s) > 0 /\ s[1] \in Whitespace THEN lstrip(Tail(s)) ELSE s

RECURSIVE rstrip(_)
rstrip(s) ==
    IF Len(s) > 0 /\ s[Len(s)] \in Whitespace
    THEN rstrip(SubSeq(s, 1, Len(s) - 1)) ELSE s

\* str.strip()
strip(s) == rstrip(lstrip(s))

\* manus.py:54-57: the stripped lines that are neither empty nor comments
RECURSIVE read_ignore_patterns(_)
read_ignore_patterns(lines) ==
    IF Len(lines) = 0 THEN <<>>
    ELSE LET line == strip(Head(lines))
         IN  IF Len(line) > 0 /\ line[1] # "#"
             THEN <<line>> \o read_ignore_patterns(Tail(lines))
             ELSE read_ignore_patterns(Tail(lines))

\* dict.update(other) for a dict other
update(config, other) ==
    [k \in DOMAIN config \cup DOMAIN other |->
        IF k \in DOMAIN other THEN other[k] ELSE config[k]]

RECURSIVE Dedup(_, _)
Dedup(l, seen) ==
    IF Len(l) = 0 THEN <<>>
    ELSE IF Head(l) \in seen THEN Dedup(Tail(l), seen)
    ELSE <<Head(l)>> \o Dedup(Tail(l), seen \cup {Head(l)})

Reverse(l) == [i \in 1..Len(l) |-> l[Len(l) + 1 - i]]

\* list(set(l)): every element once; the order is that of the set's hash
\* table, here either order of first occurrence
list_of_set(l, reversed) ==
    IF reversed THEN Reverse(Dedup(l, {})) ELSE Dedup(l, {})

\* manus.py:61-70 on the config built by steps 1 and 2
merge_ignore_lists(defaults, config, ignore_patterns, warnings, reversed) ==
    LET final_ignore_list ==
            (IF "ignore_files" \in DOMAIN config /\ config["ignore_files"].t = "list"
             THEN defaults["ignore_files"].v \o config["ignore_files"].v
             ELSE defaults["ignore_files"].v) \o ignore_patterns
    IN  [raised   |-> FALSE,
         config   |-> [config EXCEPT !["ignore_files"] =
                          List(list_of_set(final_ignore_list, reversed))],
         defaults |-> [defaults EXCEPT !["ignore_files"] = List(final_ignore_list)],
         warnings |-> warnings]

\* manus.py:48-59, then the merge
load_ignore_file(defaults, config, file, warnings, reversed) ==
    IF ~file.exists
    THEN merge_ignore_lists(defaults, config, <<>>, warnings, reversed)
    ELSE IF ~file.readable
    THEN merge_ignore_lists(defaults, config, <<>>,
                            Append(warnings, "Could not read .manusignore"), reversed)
    ELSE merge_ignore_lists(defaults, config, read_ignore_patterns(file.lines),
                            warnings, reversed)

\* The whole call.  defaults is DEFAULT_CONFIG at the call; the result holds
\* DEFAULT_CONFIG after it.  open() failing on manus.json (OSError) and
\* dict.update on a value that is no mapping (TypeError) are not caught by
\* `except json.JSONDecodeError` and leave the function.
load_config(defaults, cfile, ifile, reversed) ==
    LET config == defaults
        Raised == [raised |-> TRUE, config |-> defaults, defaults |-> defaults,
                   warnings |-> <<>>]
    IN  IF ~cfile.exists
        THEN load_ignore_file(defaults, config, ifile, <<>>, reversed)
        ELSE IF ~cfile.readable
        THEN Raised
        ELSE IF cfile.json.t = "invalid"
        THEN load_ignore_file(defaults, config, ifile,
                              <<"Could not parse manus.json">>, reversed)
        ELSE IF cfile.json.t = "dict"
        THEN load_ignore_file(defaults, update(config, cfile.json.v), ifile,
                              <<>>, reversed)
        ELSE IF cfile.json.t = "list" /\ Len(cfile.json.v) = 0
        THEN load_ignore_file(defaults, config, ifile, <<>>, reversed)
        ELSE Raised

-----------------------------------------------------------------------------
(* The project tree.  An entry is what rglob('*') yields: its parts below   *)
(* the root, what is_dir()/is_file() answer, what read_text(encoding=       *)
(* 'utf-8') does ("ok", "undecodable": UnicodeDecodeError, "oserror":       *)
(* PermissionError or another OSError) and the text it returns.            *)

Text(data, len) == [data |-> data, len |-> len]

File(parts, read, data, len) ==
    [parts |-> parts, is_dir |-> FALSE, is_file |-> TRUE, read |-> read,
     content |-> Text(data, len)]

Directory(parts) ==
    [parts |-> parts, is_dir |-> TRUE, is_file |-> FALSE, read |-> "oserror",
     content |-> Text("", 0)]

TreeScenario ==
    << File(<< <<"a", ".", "p", "y">> >>, "ok", "print", 50),
       Directory(<< <<"n", "o", "d", "e", "_", "m", "o", "d", "u", "l", "e", "s">> >>),
       File(<< <<"n", "o", "d", "e", "_", "m", "o", "d", "u", "l", "e", "s">>, <<"x", ".", "j", "s">> >>, "ok", "js", 200),
       Directory(<< <<".", "g", "i", "t">> >>),
       File(<< <<".", "g", "i", "t">>, <<"H", "E", "A", "D">> >>, "ok", "ref", 20),
       File(<< <<"n", "o", "t", "e", "s", ".", "l", "o", "g">> >>, "ok", "log", 10) >>

TreeSizes ==
    << File(<< <<"b", "i", "g", ".", "t", "x", "t">> >>, "ok", "x", 150000),
       File(<< <<"s", "m", "a", "l", "l", ".", "t", "x", "t">> >>, "ok", "x", 99999),
       File(<< <<"e", "d", "g", "e", ".", "t", "x", "t">> >>, "ok", "x", 100000),
       File(<< <<"o", "v", "e", "r", ".", "t", "x", "t">> >>, "ok", "x", 100001),
       File(<< <<"l", "o", "g", "o", ".", "p", "n", "g">> >>, "ok", "x", 10),
       File(<< <<"a", ".", "l", "o", "g">> >>, "ok", "log", 150000) >>

TreeErrors ==
    << File(<< <<"f", "i", "r", "s", "t", ".", "p", "y">> >>, "ok", "print", 50),
       File(<< <<"l", "o", "c", "k", "e", "d", ".", "t", "x", "t">> >>, "oserror", "", 0),
       File(<< <<"b", "l", "o", "b", ".", "d", "a", "t">> >>, "undecodable", "", 0),
       Directory(<< <<"b", "u", "i", "l", "d">> >>),
       File(<< <<"b", "u", "i", "l", "d">>, <<"x", ".", "j", "s">> >>, "ok", "js", 200),
       File(<< <<"p", "h", "o", "t", "o", ".", "j", "p", "g">> >>, "oserror", "", 0),
       File(<< <<"l", "a", "s", "t", ".", "p", "y">> >>, "ok", "print", 50) >>

TreeMixed ==
    << Directory(<< <<"s", "u", "b">> >>),
       File(<< <<"s", "u", "b">>, <<"a", ".", "l", "o", "g">> >>, "ok", "log", 10),
       File(<< <<"a", ".", "l", "o", "g">> >>, "ok", "log", 10),
       Directory(<< <<"m", "a", "n", "u", "s", ".", "p", "y">> >>),
       File(<< <<"m", "a", "n", "u", "s", ".", "p", "y">>, <<"x">> >>, "ok", "x", 1),
       Directory(<< <<"b", "u", "i", "l", "d">> >>),
       File(<< <<"b", "u", "i", "l", "d">>, <<"x", ".", "j", "s">> >>, "ok", "js", 200),
       Directory(<< <<"s", "r", "c">> >>),
       File(<< <<"s", "r", "c">>, <<"b", "u", "i", "l", "d">> >>, "ok", "sh", 30),
       File(<< <<"a", ".", "t", "a", "r", ".", "g", "z">> >>, "undecodable", "", 0),
       File(<< <<"x", ".", "s", "e", "c", "r", "e", "t">> >>, "ok", "key", 16),
       File(<< <<"a", ".", "p", "y">> >>, "ok", "print", 50) >>

Trees == <<TreeScenario, TreeSizes, TreeErrors, TreeMixed>>

\* manus.json and .manusignore are files of the tree when they exist
ConfigEntries(cfile, ifile) ==
    (IF cfile.exists
     THEN << File(<< <<"m", "a", "n", "u", "s", ".", "j", "s", "o", "n">> >>, IF cfile.readable THEN "ok" ELSE "oserror",
                  "json", 40) >>
     ELSE <<>>)
    \o
    (IF ifile.exists
     THEN << File(<< <<".", "m", "a", "n", "u", "s", "i", "g", "n", "o", "r", "e">> >>, IF ifile.readable THEN "ok" ELSE "oserror",
                  "ignore", 40) >>
     ELSE <<>>)

\* project_root.rglob('*'): every entry below the root, once
rglob(project_root) ==
    ConfigEntries(config_file[project_root], ignore_file[project_root]) \o tree

-----------------------------------------------------------------------------
(* gather_context(project_root, ignore_patterns), manus.py:92-116 *)

BinarySuffixes ==
    { <<".", "p", "n", "g">>, <<".", "j", "p", "g">>, <<".", "j", "p", "e", "g">>, <<".", "b", "i", "n">>, <<".", "z", "i", "p">>, <<".", "t", "a", "r">>, <<".", "g", "z">>, <<".", "i", "c", "o">> }

MaxContentLength == 100000

\* variant: the deny-list compared with the suffix without its dot
has_binary_suffix_no_dot(path) ==
    LET s == suffix(path)
    IN  Len(s) > 0 /\ SubSeq(s, 2, Len(s)) \in BinarySuffixes

\* manus.py:99
has_binary_suffix(path) == suffix(path) \in BinarySuffixes

\* variant: >= for >
too_large_inclusive(content) == content.len >= MaxContentLength

\* manus.py:105
too_large(content) == content.len > MaxContentLength

\* variant: no `except Exception` clause
on_read_error_uncaught(read) ==
    IF read = "undecodable" THEN "continue" ELSE "raise"

\* manus.py:110-114: what the except clauses do with a failed read_text;
\* an exception no clause catches would leave gather_context ("raise")
on_read_error(read) ==
    IF read = "undecodable" THEN "continue" ELSE "warn"

\* manus.py:109: the f-string, as its three variable parts
render(relative_path, content) ==
    [file |-> relative_path, content |-> content, end_file |-> relative_path]

\* The loop of manus.py:95-114 from entry k on.  The result of "\n".join is
\* kept as the list of rendered entries it joins.
RECURSIVE scan(_, _, _, _, _, _)
scan(entries, k, project_root, ignore_patterns, context, warnings) ==
    IF k > Len(entries)
    THEN [raised |-> FALSE, context |-> context, warnings |-> warnings]
    ELSE
      LET e       == entries[k]
          path    == project_root \o e.parts
          ignored == is_ignored(path, e.is_dir, ignore_patterns, project_root)
          skip    == scan(entries, k + 1, project_root, ignore_patterns,
                          context, warnings)
      IN  IF ~e.is_file THEN skip
          ELSE IF ignored.raised
          THEN [raised |-> TRUE, context |-> <<>>, warnings |-> warnings]
          ELSE IF ignored.value THEN skip
          ELSE IF has_binary_suffix(path) THEN skip
          ELSE IF e.read # "ok" /\ on_read_error(e.read) = "continue" THEN skip
          ELSE IF e.read # "ok" /\ on_read_error(e.read) = "warn"
          THEN scan(entries, k + 1, project_root, ignore_patterns, context,
                    Append(warnings, as_posix(e.parts)))
          ELSE IF e.read # "ok"
          THEN [raised |-> TRUE, context |-> <<>>, warnings |-> warnings]
          ELSE IF too_large(e.content) THEN skip
          ELSE scan(entries, k + 1, project_root, ignore_patterns,
                    Append(context, render(as_posix(relative_to(path, project_root).parts),
                                           e.content)),
                    warnings)

gather_context(project_root, ignore_patterns) ==
    scan(rglob(project_root), 1, project_root, ignore_patterns, <<>>, <<>>)

-----------------------------------------------------------------------------
(* Arguments of the direct calls *)

PatternPool == << <<"b", "u", "i", "l", "d">>, <<"*", ".", "l", "o", "g">>, <<"n", "o", "d", "e", "_", "m", "o", "d", "u", "l", "e", "s", "/">>, <<"[", "!", "b", "-", "z", "]", ".", "p", "?">> >>

RECURSIVE SubList(_, _, _)
SubList(l, S, k) ==
    IF k > Len(l) THEN <<>>
    ELSE IF k \in S THEN <<l[k]>> \o SubList(l, S, k + 1)
    ELSE SubList(l, S, k + 1)

\* every list of patterns drawn from the pool, and the built-in list
RuleLists ==
    {SubList(PatternPool, S, 1) : S \in SUBSET (1..Len(PatternPool))}
        \cup {DEFAULT_IGNORE_FILES}

\* paths that are no entry of the tree: outside both roots, or below RootB
OtherPaths ==
    { << <<"e", "t", "c">>, <<"p", "a", "s", "s", "w", "d">> >>,
      << <<"p", "r", "o", "j">> >>,
      << <<"p", "r", "o", "j">>, <<"a", "b">>, <<"a", ".", "p", "y">> >>,
      << <<"a", ".", "p", "y">> >>,
      RootB \o << <<"a", ".", "p", "y">> >> }

-----------------------------------------------------------------------------
(* State machine *)

NoCall == [status |-> "none"]

Loaded(status, root, config, warnings) ==
    [status |-> status, root |-> root, config |-> config, warnings |-> warnings]

Gathered(status, root, rules, context, warnings) ==
    [status |-> status, root |-> root, rules |-> rules,
     context |-> context, warnings |-> warnings]

Checked(status, path, is_dir, rules, root, value) ==
    [status |-> status, path |-> path, is_dir |-> is_dir, rules |-> rules,
     root |-> root, value |-> value]

InitProcess ==
    /\ DEFAULT_CONFIG = InitialDefaultConfig
    /\ calls = 0
    /\ loaded = NoCall
    /\ gathered = NoCall
    /\ previous = NoCall
    /\ checked = NoCall

NoConfigFiles ==
    /\ config_file = [r \in Roots |-> ConfigFileStates[1]]
    /\ ignore_file = [r \in Roots |-> IgnoreFileStates[1]]

\* a process that loads configurations: any state of the two files
InitLoad ==
    /\ InitProcess
    /\ \E c \in [Roots -> 1..Len(ConfigFileStates)] :
           config_file = [r \in Roots |-> ConfigFileStates[c[r]]]
    /\ \E g \in [Roots -> 1..Len(IgnoreFileStates)] :
           ignore_file = [r \in Roots |-> IgnoreFileStates[g[r]]]
    /\ tree = TreeScenario

\* a process that gathers or checks paths: any tree, no configuration files
InitTree ==
    /\ InitProcess
    /\ NoConfigFiles
    /\ \E t \in 1..Len(Trees) : tree = Trees[t]

\* a process that does what main does, manus.py:156-162, repeatedly
InitMain ==
    /\ InitProcess
    /\ \E c \in [Roots -> {1, 6}] :
           config_file = [r \in Roots |-> ConfigFileStates[c[r]]]
    /\ \E g \in [Roots -> {1, 3}] :
           ignore_file = [r \in Roots |-> IgnoreFileStates[g[r]]]
    /\ tree = TreeMixed

\* config = load_config(project_root)
LoadConfig(project_root) ==
    /\ calls < MaxCalls
    /\ \E reversed \in BOOLEAN :
         LET r == load_config(DEFAULT_CONFIG, config_file[project_root],
                              ignore_file[project_root], reversed)
         IN  /\ DEFAULT_CONFIG' = r.defaults
             /\ loaded' = Loaded(IF r.raised THEN "raised" ELSE "returned",
                                 project_root, r.config, r.warnings)
    /\ calls' = calls + 1
    /\ UNCHANGED <<config_file, ignore_file, tree, gathered, previous, checked>>

Gather(project_root, ignore_patterns) ==
    LET r == gather_context(project_root, ignore_patterns)
    IN  /\ gathered' = Gathered(IF r.raised THEN "raised" ELSE "returned",
                                project_root, ignore_patterns,
                                r.context, r.warnings)
        /\ previous' = gathered
        /\ UNCHANGED <<DEFAULT_CONFIG, config_file, ignore_file, tree, calls,
                       loaded, checked>>

\* gather_context(project_root, ignore_patterns) on any list of patterns
GatherContext(project_root) ==
    \E ignore_patterns \in RuleLists :
        Gather(project_root, ignore_patterns)

\* manus.py:162: gather_context(project_root, config["ignore_files"])
GatherConfigured ==
    /\ loaded.status = "returned"
    /\ Gather(loaded.root, loaded.config["ignore_files"].v)

\* is_ignored(path, ignore_patterns, project_root) on an entry of the tree
\* or on a path outside the root
IsIgnored(project_root) ==
    \E ignore_patterns \in RuleLists :
    \E a \in {[path |-> project_root \o tree[k].parts, is_dir |-> tree[k].is_dir] :
                  k \in 1..Len(tree)}
             \cup {[path |-> project_root, is_dir |-> TRUE]}
             \cup {[path |-> o, is_dir |-> FALSE] : o \in OtherPaths} :
        LET r == is_ignored(a.path, a.is_dir, ignore_patterns, project_root)
        IN  /\ checked' = Checked(IF r.raised THEN "raised" ELSE "returned",
                                  a.path, a.is_dir, ignore_patterns,
                                  project_root, r.value)
            /\ UNCHANGED <<DEFAULT_CONFIG, config_file, ignore_file, tree,
                           calls, loaded, gathered, previous>>

NextLoad == \E project_root \in Roots : LoadConfig(project_root)

NextGather == GatherContext(RootA)

NextIgnored == \E project_root \in Roots : IsIgnored(project_root)

Next ==
    \/ \E project_root \in Roots : LoadConfig(project_root)
    \/ GatherConfigured

Spec == InitMain /\ [][Next]_vars

SpecLoad == InitLoad /\ [][NextLoad]_vars

SpecGather == InitTree /\ [][NextGather]_vars

SpecIgnored == InitTree /\ [][NextIgnored]_vars

-----------------------------------------------------------------------------
(* Vocabulary of the properties *)

Entries == rglob(gathered.root)

RelPath(e) == as_posix(e.parts)

Count(context, rel) == Cardinality({i \in 1..Len(context) : context[i].file = rel})

InContext(e) == \E i \in 1..Len(gathered.context) :
                    /\ gathered.context[i].file = RelPath(e)
                    /\ gathered.context[i].end_file = RelPath(e)
                    /\ gathered.context[i].content = e.content

Ignored(e) ==
    is_ignored(gathered.root \o e.parts, e.is_dir, gathered.rules, gathered.root).value

BinaryNamed(e) == suffix(e.parts) \in BinarySuffixes

\* a regular file that is neither ignored nor on the binary deny-list
Candidate(e) == e.is_file /\ ~Ignored(e) /\ ~BinaryNamed(e)

Eligible(e) == Candidate(e) /\ e.read = "ok" /\ e.content.len <= 100000

\* rel = a + "/" + b with a matching the pattern
HeadMatches(rel, pattern) ==
    \E k \in 1..Len(rel) : rel[k] = "/" /\ fnmatch(SubSeq(rel, 1, k - 1), pattern)

\* rel lies strictly under the directory that the pattern "dir/" names
StrictlyUnder(rel, pattern) == IsPrefix(pattern, rel) /\ Len(rel) > Len(pattern)

ConfiguredPatterns(root) ==
    LET f == config_file[root]
    IN  IF f.exists /\ f.readable /\ f.json.t = "dict"
           /\ "ignore_files" \in DOMAIN f.json.v
           /\ f.json.v["ignore_files"].t = "list"
        THEN Range(f.json.v["ignore_files"].v)
        ELSE {}

DeclaredPatterns(root) ==
    LET f == ignore_file[root]
    IN  IF f.exists /\ f.readable THEN Range(read_ignore_patterns(f.lines)) ELSE {}

NoDuplicates(l) == \A i, j \in 1..Len(l) : l[i] = l[j] => i = j

-----------------------------------------------------------------------------
(* Properties *)

\* C1: under a rule that ends in '/', no regular file strictly under that
\* directory has an entry in the block gather_context returns; with the
\* built-in rules the tree {a.py, node_modules/x.js, .git/HEAD, notes.log}
\* yields the a.py entry alone.
C1_DirectoryRuleHidesFilesBelow ==
    gathered.status = "returned" =>
        /\ \A i \in 1..Len(gathered.context) : \A k \in 1..Len(gathered.rules) :
               EndsWith(gathered.rules[k], "/")
                   => ~StrictlyUnder(gathered.context[i].file, gathered.rules[k])
        /\ (tree = TreeScenario /\ gathered.rules = DEFAULT_IGNORE_FILES)
               => /\ Len(gathered.context) = 1
                  /\ gathered.context[1].file = <<"a", ".", "p", "y">>

\* C2: the block holds exactly one entry for each regular file that is not
\* ignored, not on the binary deny-list, decodable and not oversized, and no
\* entry for anything else.
C2_OneEntryPerEligibleFile ==
    gathered.status = "returned" =>
        /\ \A k \in 1..Len(Entries) :
               Count(gathered.context, RelPath(Entries[k]))
                   = IF Eligible(Entries[k]) THEN 1 ELSE 0
        /\ \A i \in 1..Len(gathered.context) :
               \E k \in 1..Len(Entries) :
                   Eligible(Entries[k]) /\ gathered.context[i].file = RelPath(Entries[k])
                       /\ gathered.context[i].end_file = RelPath(Entries[k])
                       /\ gathered.context[i].content = Entries[k].content

C2_Witness ==
    /\ gathered.status = "returned"
    /\ Len(gathered.context) >= 2
    /\ \E k \in 1..Len(Entries) : Entries[k].is_file /\ Ignored(Entries[k])
    /\ \E k \in 1..Len(Entries) : Entries[k].is_dir
    /\ \E k \in 1..Len(Entries) : Candidate(Entries[k]) /\ Entries[k].read # "ok"
    /\ \E k \in 1..Len(Entries) : Entries[k].is_file /\ BinaryNamed(Entries[k])

\* C3: the ignore_files that load_config returns is, as a set, the built-in
\* defaults united with the list of manus.json and the patterns of
\* .manusignore, and holds no pattern twice.
C3_IgnoreFilesIsUnionOfThreeSources ==
    loaded.status = "returned" =>
        /\ Range(loaded.config["ignore_files"].v)
               = Range(DEFAULT_IGNORE_FILES) \cup ConfiguredPatterns(loaded.root)
                     \cup DeclaredPatterns(loaded.root)
        /\ NoDuplicates(loaded.config["ignore_files"].v)

\* C4: load_config never raises, whatever the state of manus.json and
\* .manusignore; a manus.json that is present but malformed or unreadable
\* gives a warning and the default model, system prompt and ignore rules.
C4_LoadConfigNeverRaises ==
    /\ loaded.status # "raised"
    /\ loaded.status = "returned" =>
         LET f == config_file[loaded.root]
         IN  (f.exists /\ (~f.readable \/ f.json.t # "dict")) =>
                 /\ Len(loaded.warnings) > 0
                 /\ loaded.config["model"] = Str(DEFAULT_MODEL)
                 /\ loaded.config["system_prompt"] = Str(DEFAULT_SYSTEM_PROMPT)
                 /\ Range(DEFAULT_IGNORE_FILES) \subseteq Range(loaded.config["ignore_files"].v)

\* C5: a file whose read fails is skipped, alone: gather_context returns,
\* with a warning unless the failure is a decoding failure, and the block
\* holds the entry of every other eligible file, before or after it.
C5_FailedReadSkipsOnlyThatFile ==
    /\ gathered.status # "raised"
    /\ gathered.status = "returned" =>
         \A k \in 1..Len(Entries) :
             (Candidate(Entries[k]) /\ Entries[k].read # "ok") =>
                 /\ ~InContext(Entries[k])
                 /\ (Entries[k].read = "oserror")
                        <=> (RelPath(Entries[k]) \in Range(gathered.warnings))
                 /\ \A j \in 1..Len(Entries) :
                        (j # k /\ Eligible(Entries[j])) => InContext(Entries[j])

C5_Witness ==
    /\ gathered.status = "returned"
    /\ \E k \in 1..Len(Entries) : \E j \in 1..k - 1 : \E l \in k + 1..Len(Entries) :
           /\ Candidate(Entries[k]) /\ Entries[k].read = "oserror"
           /\ InContext(Entries[j]) /\ InContext(Entries[l])
    /\ \E k \in 1..Len(Entries) : Candidate(Entries[k]) /\ Entries[k].read = "undecodable"

\* C6: an otherwise eligible file is left out for its size exactly when its
\* text is longer than 100,000 characters; a sibling of 99,999 or 100,000
\* characters is in the block.
C6_OversizedExactlyAbove100000 ==
    gathered.status = "returned" =>
        \A k \in 1..Len(Entries) :
            (Candidate(Entries[k]) /\ Entries[k].read = "ok") =>
                (InContext(Entries[k]) <=> Entries[k].content.len <= 100000)

C6_Witness ==
    /\ gathered.status = "returned"
    /\ \E k, j, l, m \in 1..Len(Entries) :
           /\ Entries[k].content.len = 150000 /\ Candidate(Entries[k]) /\ ~InContext(Entries[k])
           /\ Entries[j].content.len = 99999  /\ InContext(Entries[j])
           /\ Entries[l].content.len = 100000 /\ InContext(Entries[l])
           /\ Entries[m].content.len = 100001 /\ Candidate(Entries[m]) /\ ~InContext(Entries[m])

\* C7: two successive gather_context calls on the same root, its tree and
\* its configuration files unchanged, each given the ignore_files of the
\* latest load_config (re-run or not between the two), return the same block.
C7_GatherIsIdempotent ==
    (/\ gathered.status = "returned"
     /\ previous.status = "returned"
     /\ gathered.root = previous.root)
        => gathered.context = previous.context

\* C8: is_ignored raises when the path is not below project_root (the root
\* itself counts as below: its relative path is '.'), whatever the patterns,
\* and otherwise returns a boolean.
C8_OutsideRootRaises ==
    checked.status # "none" =>
        /\ checked.status = "raised" <=> ~IsPrefix(checked.root, checked.path)
        /\ checked.status = "returned" => checked.value \in BOOLEAN

C8_Witness ==
    /\ checked.status = "raised"
    /\ checked.rules = <<>>
    /\ IsPrefix(RootB, checked.path)
    /\ checked.root = RootA

\* C10: a pattern P without a trailing '/' ignores every relative path that
\* matches P as a whole and every a + "/" + b with a matching P; a path
\* ignored under a list of patterns is ignored under every list that holds
\* those patterns.
C10_PatternAlsoIgnoresBelow ==
    checked.status = "returned" =>
        LET rel == as_posix(SubSeq(checked.path, Len(checked.root) + 1, Len(checked.path)))
        IN  /\ \A k \in 1..Len(checked.rules) :
                   (/\ ~EndsWith(checked.rules[k], "/")
                    /\ \/ fnmatch(rel, checked.rules[k])
                       \/ HeadMatches(rel, checked.rules[k]))
                       => checked.value
            /\ checked.value =>
                   \A more \in RuleLists :
                       Range(checked.rules) \subseteq Range(more) =>
                           is_ignored(checked.path, checked.is_dir, more, checked.root).value

C10_Witness ==
    /\ checked.status = "returned"
    /\ checked.value
    /\ checked.rules = << <<"b", "u", "i", "l", "d">> >>
    /\ checked.path = RootA \o << <<"b", "u", "i", "l", "d">>, <<"x", ".", "j", "s">> >>

\* C9: load_config leaves DEFAULT_CONFIG as it is: its ignore_files is the
\* list of the ten built-in patterns after any sequence of calls.
C9_DefaultsUnchanged ==
    /\ DEFAULT_CONFIG = InitialDefaultConfig
    /\ Len(DEFAULT_CONFIG["ignore_files"].v) = 10

====
